---- MODULE Spec2Model ----
(***************************************************************************)
(* Model of the Yarn compiler front end:                                   *)
(*   - the indentation-aware lexer wrapper                                 *)
(*     (crates/compiler/src/parser/indent_aware_lexer.rs),                 *)
(*   - the compilation pipeline (crates/compiler/src/compiler.rs), and     *)
(* of the runtime's StringTableTextProvider                                *)
(*     (crates/runtime/src/text_provider.rs).                              *)
(* The parts have their own specifications (Spec for the lexer wrapper,    *)
(* CompileSpec for the pipeline, ProviderSpec for the text provider);      *)
(* each leaves the variables of the other parts untouched.                 *)
(***************************************************************************)
EXTENDS Integers, Sequences, FiniteSets, TLC

\* ------------------------------------------------------------------ bounds
\* Number of next_token calls explored on one wrapper.
MaxCalls == 5
\* Number of files in a compilation job.
MaxFiles == 3
\* Number of spaces and tabs after the line break of a measured NEWLINE.
MaxWs == 3
\* Number of StringTableTextProvider values alive.
MaxProviders == 3

\* ------------------------------------------------------- program constants
\* Contribution of one tab character to the indentation length.
TabWidth == 8

VARIABLES
    \* ---- IndentAwareYarnSpinnerLexer fields
    hit_eof, last_token, pending_tokens, line_contains_shortcut, last_indent,
    unbalanced_indents, last_seen_option_content, diagnostics,
    \* ---- "none", or the panic that ended the last call
    panic,
    \* ---- the wrapped primitive lexer (self.base) and its input
    input_size_zero, base_line, base_eof,
    \* ---- observation of the wrapper's interface
    \* (the primitive tokens pulled, the tokens returned, the number of calls
    \* and the tokens the last call enqueued)
    pulled, returned, calls, last_enqueued,
    \* ---- compile(): the CompilationIntermediate, the job and the fold
    job, step, file_idx, result, known_variable_declarations,
    derived_variable_declarations, parsed_files, tracking_nodes,
    \* ---- locals of the running pass
    string_table_manager, tracking_acc, ignore_acc,
    \* ---- observation of compile()
    pass_log, processed, run, first_run,
    \* ---- StringTableTextProvider values, the Arc<RwLock<HashMap>>
    \* allocations behind them, and the threads calling them
    providers, arcs, threads,
    \* ---- observation of the providers: what the last get_text to return
    \* returned, the provider each provider descends from by cloning, and
    \* the table last handed to a provider of each descent
    got_text, cloned_from, last_set

lexer_vars == <<hit_eof, last_token, pending_tokens, line_contains_shortcut,
                last_indent, unbalanced_indents, last_seen_option_content,
                diagnostics, panic, input_size_zero, base_line, base_eof,
                pulled, returned, calls, last_enqueued>>

compile_vars == <<job, step, file_idx, result, known_variable_declarations,
                  derived_variable_declarations, parsed_files, tracking_nodes,
                  string_table_manager, tracking_acc, ignore_acc,
                  pass_log, processed, run, first_run>>

provider_vars == <<providers, arcs, threads, got_text, cloned_from, last_set>>

vars == <<lexer_vars, compile_vars, provider_vars>>

\* Option<T>: None and Some(v), an empty and a one-element sequence.
None == <<>>
Some(v) == <<v>>

\* ================================================================ tokens
NEWLINE == "NEWLINE"
TOKEN_EOF == "EOF"
SHORTCUT_ARROW == "SHORTCUT_ARROW"
BODY_END == "BODY_END"
TEXT == "TEXT"
INDENT == "INDENT"
DEDENT == "DEDENT"
BLANK_LINE_FOLLOWING_OPTION == "BLANK_LINE_FOLLOWING_OPTION"

\* Sequences over S of length at most n.
SeqUpTo(S, n) == UNION {[1..k -> S] : k \in 0..n}

\* Texts of NEWLINE tokens: one line break followed by spaces and tabs
\* (indentation lengths 0, 1, 2, 8 and, mixing both, 9).
NewlineTexts ==
    {<<"\n">>, <<"\n", " ">>, <<"\n", " ", " ">>, <<"\n", "\t">>, <<"\n", "\t", " ">>}

\* Every text of a NEWLINE token: a line break followed by up to MaxWs
\* spaces and tabs.
LineBreaks == {<<"\n">>, <<"\r", "\n">>, <<"\r">>}

MeasuredTexts == {b \o ws : b \in LineBreaks, ws \in SeqUpTo({" ", "\t"}, MaxWs)}

Tok(type, text, line) == [type |-> type, text |-> text, line |-> line]

\* create_common_token(TOKEN_EOF, "<EOF>")
SyntheticEof == Tok(TOKEN_EOF, <<"<EOF>">>, 0)

\* The tokens self.base.next_token() can deliver at line `line`; after its
\* end-of-input token the primitive lexer delivers end-of-input only.
BaseNextToken(line, eof) ==
    IF eof THEN {Tok(TOKEN_EOF, <<"<EOF>">>, line)}
    ELSE {Tok(NEWLINE, t, line) : t \in NewlineTexts}
         \cup {Tok(SHORTCUT_ARROW, <<"->">>, line), Tok(BODY_END, <<"===">>, line),
               Tok(TEXT, <<"x">>, line), Tok(TOKEN_EOF, <<"<EOF>">>, line)}

\* self.base.get_line() once the primitive lexer has matched `tok`.
BaseLineAfter(line, tok) == IF tok.type = NEWLINE THEN line + 1 ELSE line

\* ======================================================= the wrapper state
Self == [hit_eof |-> hit_eof,
         last_token |-> last_token,
         pending_tokens |-> pending_tokens,
         line_contains_shortcut |-> line_contains_shortcut,
         last_indent |-> last_indent,
         unbalanced_indents |-> unbalanced_indents,
         last_seen_option_content |-> last_seen_option_content,
         diagnostics |-> diagnostics,
         panic |-> panic]

\* Stack::peek: the top of the stack is the last element.
Peek(stack) == stack[Len(stack)]
Pop(stack) == SubSeq(stack, 1, Len(stack) - 1)

\* insert_token: a token with the given text and type at the lexer's line.
insert_token(s, text, token_type, line) ==
    [s EXCEPT !.pending_tokens = Append(@, Tok(token_type, text, line))]

RECURSIVE CountChar(_, _)
CountChar(text, c) ==
    IF text = <<>> THEN 0
    ELSE (IF text[1] = c THEN 1 ELSE 0) + CountChar(Tail(text), c)

\* The length, were a tab to count like a space.
IndentationLengthTabAsSpace(text) == CountChar(text, " ") + CountChar(text, "\t")

\* The length computed by get_length_of_newline_token.
IndentationLength(text) == CountChar(text, " ") + TabWidth * CountChar(text, "\t")

MixedIndentation(text) == CountChar(text, " ") > 0 /\ CountChar(text, "\t") > 0

IndentationWarning(tok) ==
    [severity |-> "Warning", message |-> "Indentation contains tabs and spaces",
     start_line |-> tok.line, context |-> Tail(tok.text)]

\* get_length_of_newline_token, were it to warn once per tab of a mixed
\* indentation.
RECURSIVE WarnPerTab(_, _, _)
WarnPerTab(s, tok, n) ==
    IF n = 0 THEN s
    ELSE WarnPerTab([s EXCEPT !.diagnostics = Append(@, IndentationWarning(tok))],
                    tok, n - 1)

get_length_of_newline_token_per_tab(s, tok) ==
    IF tok.type # NEWLINE
    THEN [s EXCEPT !.panic = "not_newline"]
    ELSE IF MixedIndentation(tok.text)
    THEN WarnPerTab(s, tok, CountChar(tok.text, "\t"))
    ELSE s

\* get_length_of_newline_token: the state after the call (the panic on a
\* token that is not a NEWLINE, the diagnostic on mixed indentation).
get_length_of_newline_token(s, tok) ==
    IF tok.type # NEWLINE
    THEN [s EXCEPT !.panic = "not_newline"]
    ELSE IF MixedIndentation(tok.text)
    THEN [s EXCEPT !.diagnostics = Append(@, IndentationWarning(tok))]
    ELSE s

\* The blank-line check, were it to leave the option-content line recorded.
BlankLineCheckKeepingLine(s, tok, line) ==
    IF s.last_seen_option_content # None
       /\ s.last_token # None /\ tok.type = s.last_token[1].type
       /\ line - s.last_seen_option_content[1] = 1
    THEN insert_token(s, <<>>, BLANK_LINE_FOLLOWING_OPTION, line)
    ELSE s

\* The blank-line check, were it not to look at the type of the last token.
BlankLineCheckAnyLastToken(s, tok, line) ==
    IF s.last_seen_option_content # None
    THEN LET s1 == IF line - s.last_seen_option_content[1] = 1
                   THEN insert_token(s, <<>>, BLANK_LINE_FOLLOWING_OPTION, line)
                   ELSE s
         IN [s1 EXCEPT !.last_seen_option_content = None]
    ELSE s

\* The blank-line check at the head of handle_newline_token.
BlankLineCheck(s, tok, line) ==
    IF s.last_seen_option_content # None
       /\ s.last_token # None /\ tok.type = s.last_token[1].type
    THEN LET s1 == IF line - s.last_seen_option_content[1] = 1
                   THEN insert_token(s, <<>>, BLANK_LINE_FOLLOWING_OPTION, line)
                   ELSE s
         IN [s1 EXCEPT !.last_seen_option_content = None]
    ELSE s

\* The shortcut check, were it to indent on a depth that did not increase.
ShortcutCheckAtLeast(s, len, line) ==
    IF s.line_contains_shortcut
    THEN LET s1 == IF len >= s.last_indent
                   THEN insert_token([s EXCEPT !.unbalanced_indents = Append(@, len)],
                                     <<>>, INDENT, line)
                   ELSE s
         IN [s1 EXCEPT !.line_contains_shortcut = FALSE,
                       !.last_seen_option_content = Some(line)]
    ELSE s

\* The shortcut check, were it to clear the flag and record the line only
\* when it synthesizes an INDENT.
ShortcutCheckRecordingOnIndent(s, len, line) ==
    IF s.line_contains_shortcut /\ len > s.last_indent
    THEN LET s1 == insert_token([s EXCEPT !.unbalanced_indents = Append(@, len)],
                                <<>>, INDENT, line)
         IN [s1 EXCEPT !.line_contains_shortcut = FALSE,
                       !.last_seen_option_content = Some(line)]
    ELSE s

\* The shortcut check, were it to push one more than the depth measured.
ShortcutCheckPushingDeeper(s, len, line) ==
    IF s.line_contains_shortcut
    THEN LET s1 == IF len > s.last_indent
                   THEN insert_token([s EXCEPT !.unbalanced_indents = Append(@, len + 1)],
                                     <<>>, INDENT, line)
                   ELSE s
         IN [s1 EXCEPT !.line_contains_shortcut = FALSE,
                       !.last_seen_option_content = Some(line)]
    ELSE s

\* The shortcut check, were it to push the depth without an INDENT marker.
ShortcutCheckPushingSilently(s, len, line) ==
    IF s.line_contains_shortcut
    THEN LET s1 == IF len > s.last_indent
                   THEN [s EXCEPT !.unbalanced_indents = Append(@, len)]
                   ELSE s
         IN [s1 EXCEPT !.line_contains_shortcut = FALSE,
                       !.last_seen_option_content = Some(line)]
    ELSE s

\* The shortcut check of handle_newline_token.
ShortcutCheck(s, len, line) ==
    IF s.line_contains_shortcut
    THEN LET s1 == IF len > s.last_indent
                   THEN insert_token([s EXCEPT !.unbalanced_indents = Append(@, len)],
                                     <<>>, INDENT, line)
                   ELSE s
         IN [s1 EXCEPT !.line_contains_shortcut = FALSE,
                       !.last_seen_option_content = Some(line)]
    ELSE s

\* The dedent loop, were it to pop the entries equal to the new depth too.
RECURSIVE DedentLoopAtMost(_, _, _)
DedentLoopAtMost(s, len, line) ==
    IF s.unbalanced_indents # <<>> /\ len <= Peek(s.unbalanced_indents)
    THEN LET s1 == insert_token(s, <<>>, DEDENT, line)
             s2 == [s1 EXCEPT !.unbalanced_indents = Pop(@)]
         IN IF s2.unbalanced_indents = <<>>
            THEN [s2 EXCEPT !.last_seen_option_content = Some(line)]
            ELSE DedentLoopAtMost(s2, len, line)
    ELSE s

\* The dedent loop of handle_newline_token.
RECURSIVE DedentLoop(_, _, _)
DedentLoop(s, len, line) ==
    IF s.unbalanced_indents # <<>> /\ len < Peek(s.unbalanced_indents)
    THEN LET s1 == insert_token(s, <<>>, DEDENT, line)
             s2 == [s1 EXCEPT !.unbalanced_indents = Pop(@)]
         IN IF s2.unbalanced_indents = <<>>
            \* top becomes 0: the loop ends, as len is never negative
            THEN [s2 EXCEPT !.last_seen_option_content = Some(line)]
            ELSE DedentLoop(s2, len, line)
    ELSE s

\* handle_newline_token, were it to leave last_indent as it was.
handle_newline_token_keeping_last_indent(s, tok, line) ==
    LET s0 == [s EXCEPT !.pending_tokens = Append(@, tok)]
        s1 == BlankLineCheck(s0, tok, line)
        len == IndentationLength(tok.text)
        s2 == get_length_of_newline_token(s1, tok)
        s3 == ShortcutCheck(s2, len, line)
        s4 == DedentLoop(s3, len, line)
    IN IF s2.panic # "none" THEN s2 ELSE s4

\* handle_newline_token, were it to enqueue the NEWLINE after its markers.
handle_newline_token_enqueued_last(s, tok, line) ==
    LET s1 == BlankLineCheck(s, tok, line)
        len == IndentationLength(tok.text)
        s2 == get_length_of_newline_token(s1, tok)
        s3 == ShortcutCheck(s2, len, line)
        s4 == DedentLoop(s3, len, line)
    IN IF s2.panic # "none" THEN s2
       ELSE [s4 EXCEPT !.last_indent = len, !.pending_tokens = Append(@, tok)]

handle_newline_token(s, tok, line) ==
    LET s0 == [s EXCEPT !.pending_tokens = Append(@, tok)]
        s1 == BlankLineCheck(s0, tok, line)
        len == IndentationLength(tok.text)
        s2 == get_length_of_newline_token(s1, tok)
        s3 == ShortcutCheck(s2, len, line)
        s4 == DedentLoop(s3, len, line)
    IN IF s2.panic # "none" THEN s2 ELSE [s4 EXCEPT !.last_indent = len]

\* handle_eof_token, were it to drop the stack without synthesizing DEDENTs.
handle_eof_token_without_dedents(s, tok, line) ==
    [s EXCEPT !.unbalanced_indents = <<>>, !.pending_tokens = Append(@, tok)]

RECURSIVE handle_eof_token(_, _, _)
handle_eof_token(s, tok, line) ==
    IF s.unbalanced_indents # <<>>
    THEN handle_eof_token(
             insert_token([s EXCEPT !.unbalanced_indents = Pop(@)], <<>>, DEDENT, line),
             tok, line)
    ELSE [s EXCEPT !.pending_tokens = Append(@, tok)]

\* The BODY_END arm, were it to leave the stack alone.
handle_body_end_keeping_stack(s, tok) ==
    [s EXCEPT !.line_contains_shortcut = FALSE,
              !.last_indent = 0,
              !.last_seen_option_content = None,
              !.pending_tokens = Append(@, tok)]

\* The BODY_END arm, were it to clear the pending queue with the stack.
handle_body_end_clearing_queue(s, tok) ==
    [s EXCEPT !.line_contains_shortcut = FALSE,
              !.last_indent = 0,
              !.unbalanced_indents = <<>>,
              !.last_seen_option_content = None,
              !.pending_tokens = <<tok>>]

\* The BODY_END arm of check_next_token.
handle_body_end(s, tok) ==
    [s EXCEPT !.line_contains_shortcut = FALSE,
              !.last_indent = 0,
              !.unbalanced_indents = <<>>,
              !.last_seen_option_content = None,
              !.pending_tokens = Append(@, tok)]

\* check_next_token, were its default arm to enqueue nothing.
check_next_token_dropping_other(s, tok, line) ==
    LET s1 == CASE tok.type = NEWLINE -> handle_newline_token(s, tok, line)
                [] tok.type = TOKEN_EOF -> handle_eof_token(s, tok, line)
                [] tok.type = SHORTCUT_ARROW ->
                       [s EXCEPT !.pending_tokens = Append(@, tok),
                                 !.line_contains_shortcut = TRUE]
                [] tok.type = BODY_END -> handle_body_end(s, tok)
                [] OTHER -> s
    IN IF s1.panic # "none" THEN s1 ELSE [s1 EXCEPT !.last_token = Some(tok)]

\* check_next_token, were it to remember the last token it enqueued.
check_next_token_remembering_enqueued(s, tok, line) ==
    LET s1 == CASE tok.type = NEWLINE -> handle_newline_token(s, tok, line)
                [] tok.type = TOKEN_EOF -> handle_eof_token(s, tok, line)
                [] tok.type = SHORTCUT_ARROW ->
                       [s EXCEPT !.pending_tokens = Append(@, tok),
                                 !.line_contains_shortcut = TRUE]
                [] tok.type = BODY_END -> handle_body_end(s, tok)
                [] OTHER -> [s EXCEPT !.pending_tokens = Append(@, tok)]
    IN IF s1.panic # "none" THEN s1
       ELSE [s1 EXCEPT !.last_token = Some(s1.pending_tokens[Len(s1.pending_tokens)])]

\* check_next_token, were it to measure the indentation after a shortcut
\* marker too.
check_next_token_measuring_arrow(s, tok, line) ==
    LET s1 == CASE tok.type = NEWLINE -> handle_newline_token(s, tok, line)
                [] tok.type = TOKEN_EOF -> handle_eof_token(s, tok, line)
                [] tok.type = SHORTCUT_ARROW ->
                       [handle_newline_token(s, tok, line)
                           EXCEPT !.line_contains_shortcut = TRUE]
                [] tok.type = BODY_END -> handle_body_end(s, tok)
                [] OTHER -> [s EXCEPT !.pending_tokens = Append(@, tok)]
    IN IF s1.panic # "none" THEN s1 ELSE [s1 EXCEPT !.last_token = Some(tok)]

\* check_next_token, `tok` being what self.base.next_token() delivered and
\* `line` the line the primitive lexer has reached.
check_next_token(s, tok, line) ==
    LET s1 == CASE tok.type = NEWLINE -> handle_newline_token(s, tok, line)
                [] tok.type = TOKEN_EOF -> handle_eof_token(s, tok, line)
                [] tok.type = SHORTCUT_ARROW ->
                       [s EXCEPT !.pending_tokens = Append(@, tok),
                                 !.line_contains_shortcut = TRUE]
                [] tok.type = BODY_END -> handle_body_end(s, tok)
                [] OTHER -> [s EXCEPT !.pending_tokens = Append(@, tok)]
    IN IF s1.panic # "none" THEN s1 ELSE [s1 EXCEPT !.last_token = Some(tok)]

\* The dequeue, were it to return the head of the queue and leave it there.
dequeue_unwrap_peeking(s) ==
    IF s.panic # "none" THEN [state |-> s, token |-> None]
    ELSE IF s.pending_tokens = <<>>
    THEN [state |-> [s EXCEPT !.panic = "unwrap"], token |-> None]
    ELSE [state |-> s, token |-> Some(Head(s.pending_tokens))]

\* The dequeue, were it to hand out the whole queue at once.
dequeue_unwrap_all(s) ==
    IF s.panic # "none" THEN [state |-> s, token |-> None]
    ELSE IF s.pending_tokens = <<>>
    THEN [state |-> [s EXCEPT !.panic = "unwrap"], token |-> None]
    ELSE [state |-> [s EXCEPT !.pending_tokens = <<>>], token |-> s.pending_tokens]

\* Queue::dequeue followed by unwrap: the token returned and the state left.
dequeue_unwrap(s) ==
    IF s.panic # "none" THEN [state |-> s, token |-> None]
    ELSE IF s.pending_tokens = <<>>
    THEN [state |-> [s EXCEPT !.panic = "unwrap"], token |-> None]
    ELSE [state |-> [s EXCEPT !.pending_tokens = Tail(@)],
          token |-> Some(Head(s.pending_tokens))]

\* Writes the wrapper state `s`.
Store(s) ==
    /\ hit_eof' = s.hit_eof
    /\ last_token' = s.last_token
    /\ pending_tokens' = s.pending_tokens
    /\ panic' = s.panic
    /\ line_contains_shortcut' = s.line_contains_shortcut
    /\ last_indent' = s.last_indent
    /\ unbalanced_indents' = s.unbalanced_indents
    /\ last_seen_option_content' = s.last_seen_option_content
    /\ diagnostics' = s.diagnostics

\* next_token, first two branches: nothing is pulled from the primitive lexer.
NextTokenNoPull ==
    /\ calls < MaxCalls
    /\ panic = "none"
    /\ (hit_eof /\ pending_tokens # <<>>) \/ input_size_zero
    /\ IF hit_eof /\ pending_tokens # <<>>
       THEN LET r == dequeue_unwrap(Self)
            IN /\ Store(r.state)
               /\ returned' = returned \o r.token
       ELSE /\ Store([Self EXCEPT !.hit_eof = TRUE])
            /\ returned' = Append(returned, SyntheticEof)
    /\ last_enqueued' = <<>>
    /\ calls' = calls + 1
    /\ UNCHANGED <<input_size_zero, base_line, base_eof, pulled>>
    /\ UNCHANGED <<compile_vars, provider_vars>>

\* next_token, last branch: check_next_token, then dequeue; `tok` is the
\* token the primitive lexer delivers.
NextTokenPull(tok) ==
    /\ calls < MaxCalls
    /\ panic = "none"
    /\ ~(hit_eof /\ pending_tokens # <<>>)
    /\ ~input_size_zero
    /\ LET line == BaseLineAfter(base_line, tok)
           checked == check_next_token(Self, tok, line)
           r == dequeue_unwrap(checked)
       IN /\ Store(r.state)
          /\ last_enqueued' = SubSeq(checked.pending_tokens,
                                     Len(pending_tokens) + 1,
                                     Len(checked.pending_tokens))
          /\ returned' = returned \o r.token
          /\ base_line' = line
    /\ base_eof' = (tok.type = TOKEN_EOF)
    /\ pulled' = Append(pulled, tok)
    /\ calls' = calls + 1
    /\ UNCHANGED input_size_zero
    /\ UNCHANGED <<compile_vars, provider_vars>>

\* The tokens of type `type` the primitive lexer can deliver now.
BaseTokensOfType(type) ==
    {tok \in BaseNextToken(base_line, base_eof) : tok.type = type}

NextTokenNewline ==
    \E tok \in BaseTokensOfType(NEWLINE) : NextTokenPull(tok)

NextTokenEof ==
    \E tok \in BaseTokensOfType(TOKEN_EOF) : NextTokenPull(tok)

NextTokenShortcutArrow ==
    \E tok \in BaseTokensOfType(SHORTCUT_ARROW) : NextTokenPull(tok)

NextTokenBodyEnd ==
    \E tok \in BaseTokensOfType(BODY_END) : NextTokenPull(tok)

NextTokenOther ==
    \E tok \in BaseTokensOfType(TEXT) : NextTokenPull(tok)

\* IndentAwareYarnSpinnerLexer::new
LexerInit ==
    /\ hit_eof = FALSE
    /\ last_token = None
    /\ pending_tokens = <<>>
    /\ line_contains_shortcut = FALSE
    /\ last_indent = 0
    /\ unbalanced_indents = <<>>
    /\ last_seen_option_content = None
    /\ diagnostics = <<>>
    /\ panic = "none"
    /\ base_line = 1
    /\ base_eof = FALSE
    /\ pulled = <<>>
    /\ returned = <<>>
    /\ calls = 0
    /\ last_enqueued = <<>>


\* ==================================================== claims on the lexer
\* Number of tokens of type `type` in `seq`.
Count(seq, type) == Cardinality({i \in DOMAIN seq : seq[i].type = type})

IsPrefix(a, b) == Len(a) <= Len(b) /\ a = SubSeq(b, 1, Len(a))

LastTokenIs(type) == last_token # None /\ last_token[1].type = type

\* C1: the indentation stack is empty right after a BODY_END token has been
\* processed and right after the end-of-input token has been processed.
C1_StackEmptyAfterBoundary ==
    (LastTokenIs(BODY_END) \/ LastTokenIs(TOKEN_EOF) \/ hit_eof)
        => unbalanced_indents = <<>>

\* A BODY_END token was processed while an INDENT was still open (no DEDENT
\* was synthesized for it), and an end-of-input token while DEDENTs were due.
C1_Witness ==
    \/ /\ LastTokenIs(BODY_END)
       /\ Count(returned \o pending_tokens, INDENT)
              > Count(returned \o pending_tokens, DEDENT)
       /\ unbalanced_indents = <<>>
    \/ /\ LastTokenIs(TOKEN_EOF)
       /\ Count(last_enqueued, DEDENT) = 2
       /\ unbalanced_indents = <<>>

\* The tokens returned up to and including the first end marker.
RECURSIVE UpToFirstEof(_)
UpToFirstEof(seq) ==
    IF seq = <<>> THEN <<>>
    ELSE IF Head(seq).type = TOKEN_EOF THEN <<Head(seq)>>
    ELSE <<Head(seq)>> \o UpToFirstEof(Tail(seq))

\* C2: in the stream returned up to the first end marker no prefix holds more
\* DEDENT than INDENT tokens, and once the end marker is returned the stream
\* holds as many INDENT as DEDENT tokens.
C2_BalancedMarkers ==
    LET out == UpToFirstEof(returned)
    IN /\ \A k \in 1..Len(out) :
            Count(SubSeq(out, 1, k), DEDENT) <= Count(SubSeq(out, 1, k), INDENT)
       /\ (out # <<>> /\ out[Len(out)].type = TOKEN_EOF)
            => Count(out, INDENT) = Count(out, DEDENT)

\* The step is a call of next_token that pulled a NEWLINE token.
NewlinePulled == pulled' # pulled /\ pulled'[Len(pulled')].type = NEWLINE

\* The last call processed a blank line following an option-content line:
\* it pulled a NEWLINE and synthesized a BLANK_LINE_FOLLOWING_OPTION marker.
BlankLineMarked ==
    /\ LastTokenIs(NEWLINE)
    /\ Count(last_enqueued, BLANK_LINE_FOLLOWING_OPTION) > 0

\* The dedent loop of the last call popped the last entry off the stack.
DedentedOut == Count(last_enqueued, DEDENT) > 0 /\ unbalanced_indents = <<>>

\* C3 as stated: a marked blank line synthesizes one marker and leaves no
\* option-content line recorded, and a NEWLINE directly after it synthesizes
\* no marker, whatever the stack held.
C3_NoSecondMarker ==
    [][BlankLineMarked =>
          /\ Count(last_enqueued, BLANK_LINE_FOLLOWING_OPTION) = 1
          /\ last_seen_option_content = None
          /\ NewlinePulled =>
                Count(last_enqueued', BLANK_LINE_FOLLOWING_OPTION) = 0]_vars

\* C3 as amended: the same, unless the dedent loop of the marked blank line
\* popped the last entry off the stack, which records the line again.
C3_NoSecondMarkerUnlessDedentedOut ==
    [][BlankLineMarked =>
          /\ Count(last_enqueued, BLANK_LINE_FOLLOWING_OPTION) = 1
          /\ ~DedentedOut =>
                /\ last_seen_option_content = None
                /\ NewlinePulled =>
                      Count(last_enqueued', BLANK_LINE_FOLLOWING_OPTION) = 0]_vars

\* A shortcut line, an indented blank line, then a blank line that is marked
\* and leaves the stack alone, then a further NEWLINE.
C3_Witness ==
    /\ Len(pulled) = 4
    /\ pulled[1].type = SHORTCUT_ARROW
    /\ \A i \in 2..4 : pulled[i].type = NEWLINE
    /\ Count(returned \o pending_tokens, BLANK_LINE_FOLLOWING_OPTION) = 1
    /\ Count(returned \o pending_tokens, DEDENT) = 0
    /\ Count(last_enqueued, BLANK_LINE_FOLLOWING_OPTION) = 0
    /\ unbalanced_indents # <<>>

\* Number of positions of `text` holding the character `c`.
Occurrences(text, c) == Cardinality({i \in DOMAIN text : text[i] = c})

\* C12: the indentation length measured for a NEWLINE token is the number
\* of its spaces plus 8 times the number of its tabs: 8 for one tab, 1 for
\* one space, 9 for a tab and a space; other characters count 0.
C12_IndentationLength ==
    LastTokenIs(NEWLINE) =>
        LET text == last_token[1].text
        IN /\ last_indent = Occurrences(text, " ") + 8 * Occurrences(text, "\t")
           /\ text = <<"\n", "\t">> => last_indent = 8
           /\ text = <<"\n", " ">> => last_indent = 1
           /\ text = <<"\n", "\t", " ">> => last_indent = 9
           /\ text \in LineBreaks => last_indent = 0

\* A NEWLINE of a carriage return, a line feed, two tabs and a space.
C12_Witness ==
    /\ LastTokenIs(NEWLINE)
    /\ last_token[1].text = <<"\r", "\n", "\t", "\t", " ">>
    /\ last_indent = 17

\* A NEWLINE text of the same indentation length made of spaces only.
SpacesOnly(len) == [i \in 1..(len + 1) |-> IF i = 1 THEN "\n" ELSE " "]

TypesOf(seq) == [i \in DOMAIN seq |-> seq[i].type]

\* The fields of a wrapper state other than its diagnostics and the texts of
\* its tokens.
BlockState(s) ==
    <<s.hit_eof, s.line_contains_shortcut, s.last_indent, s.unbalanced_indents,
      s.last_seen_option_content, s.panic, TypesOf(s.pending_tokens)>>

\* C13: processing a NEWLINE token appends one Warning diagnostic if its
\* text holds a space and a tab, however many, and none otherwise; the
\* tokens enqueued and the stack and flags are those a NEWLINE of the same
\* length without mixed indentation, hence without diagnostic, leaves.
C13_OneWarningNoOtherEffect ==
    [][NewlinePulled =>
          LET tok == pulled'[Len(pulled')]
              mixed == Occurrences(tok.text, " ") > 0 /\ Occurrences(tok.text, "\t") > 0
              plain == Tok(NEWLINE, SpacesOnly(last_indent'), tok.line)
              r == dequeue_unwrap(check_next_token(Self, plain, base_line'))
              unmixed == r.state
          IN /\ Len(diagnostics') = Len(diagnostics) + (IF mixed THEN 1 ELSE 0)
             /\ IsPrefix(diagnostics, diagnostics')
             /\ mixed => diagnostics'[Len(diagnostics')].severity = "Warning"
             /\ unmixed.diagnostics = diagnostics
             /\ BlockState(unmixed) = BlockState(Self')
             /\ TypesOf(r.token)
                   = TypesOf(SubSeq(returned', Len(returned) + 1, Len(returned')))]_vars

\* A NEWLINE after a shortcut marker, indented by two tabs and a space: one
\* warning, and the INDENT is synthesized all the same.
C13_Witness ==
    /\ Len(pulled) = 2
    /\ pulled[2].text = <<"\n", "\t", "\t", " ">>
    /\ Len(diagnostics) = 1
    /\ Count(last_enqueued, INDENT) = 1
    /\ unbalanced_indents = <<17>>

\* The tokens of `seq` that are not synthetic markers.
Synthetic == {INDENT, DEDENT, BLANK_LINE_FOLLOWING_OPTION}

PrimitiveOnly(seq) == SelectSeq(seq, LAMBDA t : t.type \notin Synthetic)

\* C15: for a non-empty input the tokens returned, the synthetic INDENT,
\* DEDENT and BLANK_LINE_FOLLOWING_OPTION tokens removed, are a prefix of the
\* tokens the primitive lexer produced; with the tokens still queued they
\* are exactly those tokens, each unchanged, once and in order.
C15_PrimitiveTokensPassThrough ==
    ~input_size_zero =>
        /\ IsPrefix(PrimitiveOnly(returned), pulled)
        /\ PrimitiveOnly(returned \o pending_tokens) = pulled

\* Synthetic markers were returned between primitive tokens, and primitive
\* tokens are still queued behind them.
C15_Witness ==
    /\ ~input_size_zero
    /\ Count(returned, INDENT) = 1
    /\ Count(returned, DEDENT) = 1
    /\ Len(PrimitiveOnly(returned)) = 3
    /\ Len(pulled) = 5

\* The step is a call of next_token that pulled the end-of-input token.
EofPulled == pulled' # pulled /\ pulled'[Len(pulled')].type = TOKEN_EOF

Dedents(n, line) == [i \in 1..n |-> Tok(DEDENT, <<>>, line)]

\* C16: when the primitive lexer yields its end-of-input token while the
\* stack holds n entries, n DEDENT markers and then the end marker are
\* enqueued; the queue is first-in first-out, one token returned per pull, so
\* the following pulls return them in that order; no DEDENT comes after an
\* end marker.
C16_DedentsThenEnd ==
    [][/\ EofPulled =>
             last_enqueued' = Dedents(Len(unbalanced_indents), base_line')
                                 \o <<pulled'[Len(pulled')]>>
       /\ pulled' # pulled =>
             /\ returned' \o pending_tokens'
                   = (returned \o pending_tokens) \o last_enqueued'
             /\ Len(returned') = Len(returned) + 1
       /\ LET out == returned' \o pending_tokens'
          IN \A i, j \in DOMAIN out :
                (i < j /\ out[i].type = TOKEN_EOF) => out[j].type # DEDENT]_vars

\* The end of input came with one entry on the stack; the DEDENT and then the
\* end marker have been returned.
C16_Witness ==
    /\ Len(returned) = 5
    /\ returned[3].type = INDENT
    /\ returned[4].type = DEDENT
    /\ returned[5].type = TOKEN_EOF

\* C17: once the primitive lexer has delivered its end-of-input token, a
\* pull sets the end-of-input flag and pulls no further token from the
\* primitive lexer.
C17_ExhaustedSetsFlag ==
    [][(base_eof /\ calls' # calls) => (hit_eof' /\ pulled' = pulled)]_vars

\* The depth of a NEWLINE text.
Depth(text) == Occurrences(text, " ") + 8 * Occurrences(text, "\t")

\* C18: processing a NEWLINE synthesizes an INDENT, and pushes the new depth,
\* if and only if the shortcut flag is set and the new depth is greater than
\* the last one; never more than one INDENT.
C18_IndentIffShortcutDeeper ==
    [][NewlinePulled =>
          LET d == Depth(pulled'[Len(pulled')].text)
              indent == line_contains_shortcut /\ d > last_indent
          IN /\ Count(last_enqueued', INDENT) = (IF indent THEN 1 ELSE 0)
             /\ indent => unbalanced_indents' = Append(unbalanced_indents, d)
             /\ ~indent => IsPrefix(unbalanced_indents', unbalanced_indents)]_vars

\* A second INDENT was synthesized, for a deeper line after a shortcut marker
\* inside an open block.
C18_Witness ==
    /\ LastTokenIs(NEWLINE)
    /\ Count(last_enqueued, INDENT) = 1
    /\ Len(unbalanced_indents) = 2
    /\ Peek(unbalanced_indents) = last_indent

\* C19: a NEWLINE processed with the shortcut flag set clears the flag and
\* records the lexer's line as option-content line, INDENT or not; after any
\* NEWLINE the flag is false.
C19_FlagClearedLineRecorded ==
    [][NewlinePulled =>
          /\ ~line_contains_shortcut'
          /\ line_contains_shortcut =>
                last_seen_option_content' = Some(base_line')]_vars

\* A NEWLINE right after a shortcut marker whose depth did not increase: no
\* INDENT, the flag cleared and the line recorded.
C19_Witness ==
    /\ Len(pulled) >= 2
    /\ pulled[Len(pulled) - 1].type = SHORTCUT_ARROW
    /\ LastTokenIs(NEWLINE)
    /\ Count(last_enqueued, INDENT) = 0
    /\ ~line_contains_shortcut
    /\ last_seen_option_content = Some(base_line)

\* C20: after a NEWLINE of depth d every stack entry is at most d, as many
\* DEDENTs were synthesized as entries greater than d were popped,
\* last_indent is d, and if the loop emptied the stack the lexer's line is
\* recorded as option-content line.
C20_DedentLoop ==
    [][NewlinePulled =>
          LET d == Depth(pulled'[Len(pulled')].text)
              before == IF line_contains_shortcut /\ d > last_indent
                        THEN Append(unbalanced_indents, d)
                        ELSE unbalanced_indents
              popped == Cardinality({i \in DOMAIN before : before[i] > d})
          IN /\ \A i \in DOMAIN unbalanced_indents' : unbalanced_indents'[i] <= d
             /\ Count(last_enqueued', DEDENT) = popped
             /\ IsPrefix(unbalanced_indents', before)
             /\ Len(unbalanced_indents') = Len(before) - popped
             /\ last_indent' = d
             /\ (popped > 0 /\ unbalanced_indents' = <<>>) =>
                   last_seen_option_content' = Some(base_line')]_vars

\* A NEWLINE of depth 0 closed two open blocks at once.
C20_Witness ==
    /\ LastTokenIs(NEWLINE)
    /\ Count(last_enqueued, DEDENT) = 2
    /\ last_indent = 0
    /\ unbalanced_indents = <<>>
    /\ last_seen_option_content = Some(base_line)

\* The call pulled a NEWLINE and synthesized a blank-line marker for it.
MarkerSynthesized ==
    NewlinePulled /\ Count(last_enqueued', BLANK_LINE_FOLLOWING_OPTION) > 0

\* A marker is synthesized only if an option-content line is recorded, the
\* token processed before is a NEWLINE and the lexer's line is the recorded
\* line plus 1; at most one marker per NEWLINE.
MarkerOnlyForBlankLineAfterOption ==
    /\ MarkerSynthesized =>
          /\ last_seen_option_content # None
          /\ LastTokenIs(NEWLINE)
          /\ base_line' = last_seen_option_content[1] + 1
    /\ NewlinePulled => Count(last_enqueued', BLANK_LINE_FOLLOWING_OPTION) <= 1

\* C21 as stated: the three conditions, at most one marker, and no
\* option-content line recorded once the NEWLINE with the marker is processed.
C21_MarkerConditions ==
    [][/\ MarkerOnlyForBlankLineAfterOption
       /\ MarkerSynthesized => last_seen_option_content' = None]_vars

\* C21 as amended: the same, the option-content line being recorded again
\* (as the lexer's line) when the dedent loop of that NEWLINE popped the last
\* entry off the stack.
C21_MarkerConditionsUnlessDedentedOut ==
    [][/\ MarkerOnlyForBlankLineAfterOption
       /\ MarkerSynthesized =>
             last_seen_option_content' =
                 (IF Count(last_enqueued', DEDENT) > 0 /\ unbalanced_indents' = <<>>
                  THEN Some(base_line') ELSE None)]_vars

\* A marked blank line whose dedent loop emptied the stack: the line is
\* recorded again.
C21_Witness ==
    /\ BlankLineMarked
    /\ Len(pulled) = 3
    /\ DedentedOut
    /\ last_seen_option_content = Some(base_line)

\* The step is a call of next_token that pulled a BODY_END token.
BodyEndPulled == pulled' # pulled /\ pulled'[Len(pulled')].type = BODY_END

\* C22: a BODY_END token is enqueued unchanged, alone, behind the tokens
\* already waiting, which keep their order; the shortcut flag is false, the
\* last depth 0, the stack empty and no option-content line recorded.
C22_BodyEndResets ==
    [][BodyEndPulled =>
          /\ last_enqueued' = <<pulled'[Len(pulled')]>>
          /\ returned' \o pending_tokens'
                = (returned \o pending_tokens) \o <<pulled'[Len(pulled')]>>
          /\ ~line_contains_shortcut'
          /\ last_indent' = 0
          /\ unbalanced_indents' = <<>>
          /\ last_seen_option_content' = None]_vars

\* A BODY_END arrived inside two open blocks while an INDENT was waiting in
\* the queue: the INDENT is still waiting before it.
C22_Witness ==
    /\ LastTokenIs(BODY_END)
    /\ TypesOf(pending_tokens) = <<INDENT, BODY_END>>
    /\ last_enqueued = <<last_token[1]>>
    /\ Count(returned \o pending_tokens, INDENT) = 2
    /\ unbalanced_indents = <<>>
    /\ last_indent = 0

\* C23: the dequeue of next_token never finds the queue empty: every call
\* returns a token, whatever the primitive lexer delivered and however many
\* calls were made, also after the end marker was returned.
C23_DequeueNeverFails ==
    /\ panic # "unwrap"
    /\ Len(returned) = calls

\* Calls made after the end marker was returned.
C23_Witness ==
    /\ ~input_size_zero
    /\ calls = 5
    /\ returned[2].type = TOKEN_EOF
    /\ panic = "none"

\* The call serves the queue after end-of-input.
ServingQueue == hit_eof /\ pending_tokens # <<>>

\* C24: each call returns exactly one token, and pulls one token from the
\* primitive lexer if the input is not empty and the call does not serve the
\* queue after end-of-input, none otherwise.
C24_OneReturnedOnePulled ==
    [][calls' # calls =>
          /\ Len(returned') = Len(returned) + 1
          /\ Len(pulled') = Len(pulled)
                + (IF ~input_size_zero /\ ~ServingQueue THEN 1 ELSE 0)
          /\ IsPrefix(pulled, pulled')]_vars

\* Five calls on a non-empty input that synthesized markers: five tokens
\* pulled, five returned, others waiting.
C24_Witness ==
    /\ ~input_size_zero
    /\ calls = 5
    /\ Len(pulled) = 5
    /\ Len(returned) = 5
    /\ Len(pending_tokens) = 3

\* C25: the token remembered for the blank-line check is the token most
\* recently pulled from the primitive lexer, never a synthetic one, also when
\* the token most recently returned is another one; a marker is synthesized
\* only when the token pulled before the NEWLINE was a NEWLINE.
C25_LastTokenIsLastPulled ==
    [][/\ last_token' = (IF pulled' = <<>> THEN None
                         ELSE Some(pulled'[Len(pulled')]))
       /\ last_token' # None => last_token'[1].type \notin Synthetic
       /\ MarkerSynthesized => pulled[Len(pulled)].type = NEWLINE]_vars

\* A blank line was marked while the token most recently returned was an
\* INDENT, the queue lagging behind.
C25_Witness ==
    /\ BlankLineMarked
    /\ returned[Len(returned)].type = INDENT
    /\ pulled[Len(pulled) - 1].type = NEWLINE
    /\ Len(pending_tokens) >= 3

\* C26: the indentation length is never computed for a token that is not a
\* NEWLINE, whatever the primitive lexer delivers.
C26_LengthOfNewlinesOnly == panic # "not_newline"

\* Tokens of all five kinds were processed, the NEWLINE measured.
C26_Witness ==
    /\ {pulled[i].type : i \in DOMAIN pulled}
          = {NEWLINE, TOKEN_EOF, SHORTCUT_ARROW, BODY_END, TEXT}
    /\ last_indent = 1
    /\ panic = "none"

\* C31: the indentation stack is strictly increasing from bottom to top,
\* and after a NEWLINE token its top, if any, is at most last_indent.
C31_StackIncreasing ==
    /\ \A i, j \in DOMAIN unbalanced_indents :
          i < j => unbalanced_indents[i] < unbalanced_indents[j]
    /\ (LastTokenIs(NEWLINE) /\ unbalanced_indents # <<>>)
          => Peek(unbalanced_indents) <= last_indent

\* Two blocks are open and the last NEWLINE is deeper than both.
C31_Witness ==
    /\ LastTokenIs(NEWLINE)
    /\ Len(unbalanced_indents) = 2
    /\ Peek(unbalanced_indents) < last_indent

\* C32: no NEWLINE token synthesizes both an INDENT and a DEDENT: when an
\* INDENT is pushed, the dedent loop of the same call pops nothing.
C32_NoIndentWithDedent ==
    [][NewlinePulled =>
          /\ ~(Count(last_enqueued', INDENT) > 0 /\ Count(last_enqueued', DEDENT) > 0)
          /\ Count(last_enqueued', INDENT) > 0 =>
                /\ IsPrefix(unbalanced_indents, unbalanced_indents')
                /\ Len(unbalanced_indents') = Len(unbalanced_indents) + 1]_vars

\* An INDENT was pushed on a stack whose top a shallower line would pop.
C32_Witness ==
    /\ LastTokenIs(NEWLINE)
    /\ Count(last_enqueued, INDENT) = 1
    /\ Count(last_enqueued, DEDENT) = 0
    /\ unbalanced_indents = <<1, 2>>

\* The tokens of `seq` after its last BODY_END token.
SinceLastBodyEnd(seq) ==
    LET ends == {i \in DOMAIN seq : seq[i].type = BODY_END}
        start == IF ends = {} THEN 0 ELSE CHOOSE i \in ends : \A k \in ends : k <= i
    IN SubSeq(seq, start + 1, Len(seq))

\* C33: the depth of the stack is the number of INDENT markers minus the
\* number of DEDENT markers synthesized since the start of input or the last
\* BODY_END token processed.
C33_DepthIsIndentsMinusDedents ==
    LET since == SinceLastBodyEnd(returned \o pending_tokens)
    IN Len(unbalanced_indents) = Count(since, INDENT) - Count(since, DEDENT)

\* A BODY_END dropped an open block without a DEDENT, and a block was opened
\* after it: only the second INDENT counts.
C33_Witness ==
    /\ Count(returned \o pending_tokens, BODY_END) = 1
    /\ Count(returned \o pending_tokens, INDENT) = 2
    /\ Count(SinceLastBodyEnd(returned \o pending_tokens), INDENT) = 1
    /\ Len(unbalanced_indents) = 1

\* Position of a token type in what one NEWLINE token enqueues.
Rank(type) ==
    CASE type = NEWLINE -> 0
      [] type = BLANK_LINE_FOLLOWING_OPTION -> 1
      [] type = INDENT -> 2
      [] type = DEDENT -> 3
      [] OTHER -> 4

\* C34: what one NEWLINE token enqueues is the NEWLINE itself, then the
\* blank-line marker if any, then the INDENT if any, then the DEDENTs if any,
\* at the tail of the queue: the NEWLINE is returned before its markers.
C34_NewlineBeforeItsMarkers ==
    [][NewlinePulled =>
          /\ last_enqueued'[1] = pulled'[Len(pulled')]
          /\ \A i, j \in DOMAIN last_enqueued' :
                i < j => /\ Rank(last_enqueued'[i].type) <= Rank(last_enqueued'[j].type)
                         /\ last_enqueued'[j].type \in Synthetic
          /\ returned' \o pending_tokens'
                = (returned \o pending_tokens) \o last_enqueued']_vars

\* A NEWLINE enqueued with a blank-line marker and a DEDENT behind it.
C34_Witness ==
    /\ LastTokenIs(NEWLINE)
    /\ TypesOf(last_enqueued) = <<NEWLINE, BLANK_LINE_FOLLOWING_OPTION, DEDENT>>
    /\ Count(returned, BLANK_LINE_FOLLOWING_OPTION) = 0

\* ============================================================== compile
\* Node titles occurring in the files.
Nodes == {"Start", "X"}

EmptyMap == [k \in {} |-> k]
\* HashMap::insert, were it to keep the value of a key already present.
InsertIfAbsent(m, k, v) == [x \in DOMAIN m \cup {k} |-> IF x \in DOMAIN m THEN m[x] ELSE v]

\* HashMap::insert
Insert(m, k, v) == [x \in DOMAIN m \cup {k} |-> IF x = k THEN v ELSE m[x]]
Range(seq) == {seq[i] : i \in DOMAIN seq}

Diag(severity, message, file) ==
    [severity |-> severity, message |-> message, file |-> file]

\* A declaration statement `<<declare name = default_value>>` of a file.
\* Names and descriptions are sequences of string pieces.
ExplicitDeclaration(name, type, default_value) ==
    [name |-> name, type |-> type, default_value |-> default_value,
     description |-> <<>>]

\* A file of a job, held as what parsing it and walking its tree produce:
\* the parser's diagnostics, the lines of its nodes (line id and text, in
\* source order), its declaration statements, the diagnostics of the
\* declaration visitor, its file tags, and the node titles that request
\* visit tracking and that opt out of it (one entry per occurrence).
YarnFile(file_name, parse_diags, lines, decls, decl_diags, file_tags, tracking, ignoring) ==
    [file_name |-> file_name, parse_diagnostics |-> parse_diags,
     lines |-> lines, declarations |-> decls,
     declaration_diagnostics |-> decl_diags,
     file_tags |-> file_tags, tracking |-> tracking, ignoring |-> ignoring]

\* A line of a node: its line id and text, whether options follow it, and
\* the tags it carries (none in the source).
Line(id, text) == [id |-> id, text |-> text, before_options |-> FALSE, tags |-> <<>>]

LineBeforeOptions(id, text) == [Line(id, text) EXCEPT !.before_options = TRUE]

\* One node "Start" whose body calls visited("Start").
FileStart ==
    YarnFile("start.yarn", <<>>, <<Line("line:s1", "hello")>>, <<>>, <<>>, <<>>,
             <<"Start">>, <<>>)
\* Node "X" calls visited("X"); declares $a; options follow its line.
FileA ==
    YarnFile("a.yarn", <<>>, <<LineBeforeOptions("line:a1", "one")>>,
             <<ExplicitDeclaration(<<"$a">>, "Number", 1)>>, <<>>, <<"tagA">>,
             <<"X">>, <<>>)
\* Node "X" opts out of tracking; a syntax error; reuses the line id of FileA.
FileB ==
    YarnFile("b.yarn", <<Diag("Error", "syntax error", "b.yarn")>>,
             <<Line("line:a1", "two"), Line("line:b1", "three")>>,
             <<>>, <<>>, <<>>, <<>>, <<"X">>)
\* Same name as FileA; both nodes request tracking, "X" twice; a bad
\* declaration.
FileC ==
    YarnFile("a.yarn", <<>>, <<>>, <<ExplicitDeclaration(<<"$c">>, "String", 0)>>,
             <<Diag("Error", "bad declaration", "a.yarn")>>, <<"tagC">>,
             <<"Start", "X", "X">>, <<>>)

FileUniverse == {FileStart, FileA, FileB, FileC}

\* A declaration handed to the job by the caller.
ExternalDeclaration == ExplicitDeclaration(<<"$ext">>, "Number", 7)

\* The CompilationJob values explored.
Jobs == [files : SeqUpTo(FileUniverse, MaxFiles),
         variable_declarations : {<<>>, <<ExternalDeclaration>>}]

\* CompilationResult::default()
DefaultResult ==
    [diagnostics |-> <<>>, declarations |-> <<>>, string_table |-> EmptyMap,
     file_tags |-> EmptyMap]

\* The steps, were get_declarations to come first.
compiler_steps_declarations_first ==
    <<"get_declarations", "register_strings", "find_tracking_nodes",
      "add_tracking_declarations">>

\* The Vec of steps compile folds over.
compiler_steps ==
    <<"register_strings", "get_declarations", "find_tracking_nodes",
      "add_tracking_declarations">>

PerFilePasses == {"register_strings", "get_declarations", "find_tracking_nodes"}

\* Position of the fold: 0 before compile is called, k while step k runs,
\* Returned once compile has returned state.result.
Returned == Len(compiler_steps) + 1

CurrentStep == IF step \in 1..Len(compiler_steps) THEN compiler_steps[step] ELSE "none"

\* parse_syntax_tree: the parse result retained for the later passes.
parse_syntax_tree(file) == file

\* StringTableGeneratorVisitor over one file, started from `table`: every
\* line registers its id unless the id is taken, which is diagnosed.
RECURSIVE RegisterLines(_, _, _)
RegisterLines(table, lines, file_name) ==
    IF lines = <<>> THEN [string_table |-> table, diagnostics |-> <<>>]
    ELSE LET l == Head(lines)
             dup == l.id \in DOMAIN table
             t1 == IF dup THEN table
                   ELSE Insert(table, l.id, [text |-> l.text, file |-> file_name,
                                             tags |-> l.tags])
             rest == RegisterLines(t1, Tail(lines), file_name)
         IN [string_table |-> rest.string_table,
             diagnostics |->
                 (IF dup THEN <<Diag("Error", "Duplicate line ID", file_name)>>
                  ELSE <<>>) \o rest.diagnostics]

\* LastLineBeforeOptionsVisitor over a tree: the lines that options follow
\* get the tag "lastline".
LastLineBeforeOptionsVisitor(tree) ==
    [tree EXCEPT !.lines =
        [i \in DOMAIN @ |->
            IF @[i].before_options
            THEN [@[i] EXCEPT !.tags = Append(@, "lastline")]
            ELSE @[i]]]

\* StringTableManager::extend
Extend(table, other) ==
    [k \in DOMAIN table \cup DOMAIN other |->
        IF k \in DOMAIN other THEN other[k] ELSE table[k]]

\* Library::generate_unique_visited_variable_for_node
generate_unique_visited_variable_for_node(node) == <<"$Yarn.Internal.Visiting.", node>>

\* The Declaration add_tracking_declarations builds for one node.
TrackingDeclaration(node) ==
    [name |-> generate_unique_visited_variable_for_node(node),
     type |-> "Number", default_value |-> 0,
     description |-> <<"The generated variable for tracking visits of node ", node>>]

\* The body of the loop of register_strings, were the tagger to run after
\* the string-table generator.
register_strings_file_tagging_last(table, file) ==
    LET parse_result == parse_syntax_tree(file)
        visitor == RegisterLines(table, parse_result.lines, file.file_name)
        tagged == LastLineBeforeOptionsVisitor(parse_result)
    IN [parse_result |-> tagged, visitor |-> visitor]

\* The body of the loop, were the generator to start from an empty table.
register_strings_file_fresh_table(table, file) ==
    LET parse_result == parse_syntax_tree(file)
        tagged == LastLineBeforeOptionsVisitor(parse_result)
        visitor == RegisterLines(EmptyMap, tagged.lines, file.file_name)
    IN [parse_result |-> tagged, visitor |-> visitor]

\* The body of the loop of register_strings on one file: the parse, the
\* tagger on its tree, then the string-table generator on the same tree,
\* started from a clone of the running table.
register_strings_file(table, file) ==
    LET parse_result == parse_syntax_tree(file)
        tagged == LastLineBeforeOptionsVisitor(parse_result)
        visitor == RegisterLines(table, tagged.lines, file.file_name)
    IN [parse_result |-> tagged, visitor |-> visitor]

\* state.parsed_files.push, were it to skip the files the parser diagnosed.
parsed_files_push_unless_diagnosed(parsed, parse_result) ==
    IF parse_result.parse_diagnostics = <<>> THEN Append(parsed, parse_result)
    ELSE parsed

\* state.parsed_files.push(parse_result)
parsed_files_push(parsed, parse_result) == Append(parsed, parse_result)

\* The orders in which iterating a HashSet can yield its elements.
IterationOrders(set) ==
    {seq \in [1..Cardinality(set) -> set] : Range(seq) = set}

\* The declarations built for the titles of `seq`, in its order.
DeclarationsOf(seq) == [i \in DOMAIN seq |-> TrackingDeclaration(seq[i])]

\* One declaration per request of a tracked node, in file order.
RECURSIVE RequestsOf(_, _)
RequestsOf(files, nodes) ==
    IF files = <<>> THEN <<>>
    ELSE SelectSeq(Head(files).tracking, LAMBDA n : n \in nodes)
         \o RequestsOf(Tail(files), nodes)

TrackingDeclarationsPerRequest(nodes) ==
    {DeclarationsOf(RequestsOf(parsed_files, nodes))}

\* The tracking_declarations of add_tracking_declarations: one declaration
\* per element the iteration over state.tracking_nodes yields.
TrackingDeclarations(nodes) ==
    {DeclarationsOf(order) : order \in IterationOrders(nodes)}

\* HashSet::extend, as find_tracking_nodes applies it to tracking_nodes and
\* to ignore_nodes.
ExtendSet(set, items) == set \cup Range(items)

\* The same for ignore_nodes, were each file's opt-outs to replace the set.
ExtendIgnoreReplacing(set, items) == Range(items)

ExtendIgnore(set, items) == ExtendSet(set, items)

\* The set stored, were the opt-outs left out of account.
FinalTrackingNodesKeepingAll(tracking, ignore) == tracking

\* The set find_tracking_nodes stores once every file is scanned.
FinalTrackingNodes(tracking, ignore) == tracking \ ignore

\* from_job, were it to seed the result with the job's declarations.
from_job_seeding_declarations(compilation_job) ==
    [result |-> [DefaultResult EXCEPT
                    !.declarations = compilation_job.variable_declarations],
     known_variable_declarations |-> <<>>,
     derived_variable_declarations |-> <<>>,
     parsed_files |-> <<>>,
     tracking_nodes |-> {}]

\* CompilationIntermediate::from_job
from_job(compilation_job) ==
    [result |-> DefaultResult,
     known_variable_declarations |-> <<>>,
     derived_variable_declarations |-> <<>>,
     parsed_files |-> <<>>,
     tracking_nodes |-> {}]

NoneProcessed == [p \in PerFilePasses |-> 0]

\* The loop, were it to stop at the first Error diagnostic of the result.
HasNextUnlessError(idx, files) ==
    /\ idx < Len(files)
    /\ \A i \in DOMAIN result.diagnostics : result.diagnostics[i].severity # "Error"

\* `for file in &files`: the loop has another file to process.
HasNext(idx, files) == idx < Len(files)

\* The diagnostics, were a pass to store its own in place of the list.
ReplaceDiagnostics(diags, new) == new

\* Vec::extend / extend_from_slice on result.diagnostics.
ExtendDiagnostics(diags, new) == diags \o new

\* The fold calls step k: its locals are initialised.
EnterStep(k, table) ==
    /\ step' = k
    /\ file_idx' = 0
    /\ string_table_manager' = table
    /\ tracking_acc' = {}
    /\ ignore_acc' = {}
    /\ pass_log' = IF k \in 1..Len(compiler_steps)
                   THEN Append(pass_log, compiler_steps[k]) ELSE pass_log

\* compile: the intermediate is built and the fold calls the first step.
Compile ==
    /\ step = 0
    /\ LET initial == from_job(job)
       IN /\ result' = initial.result
          /\ known_variable_declarations' = initial.known_variable_declarations
          /\ derived_variable_declarations' = initial.derived_variable_declarations
          /\ parsed_files' = initial.parsed_files
          /\ tracking_nodes' = initial.tracking_nodes
          /\ EnterStep(1, initial.result.string_table)
    /\ UNCHANGED <<job, processed, run, first_run>>
    /\ UNCHANGED <<lexer_vars, provider_vars>>

\* register_strings: one iteration of the loop over state.job.files.
RegisterStringsFile ==
    /\ CurrentStep = "register_strings"
    /\ HasNext(file_idx, job.files)
    /\ LET file == job.files[file_idx + 1]
           body == register_strings_file(string_table_manager, file)
           parse_result == body.parse_result
           visitor == body.visitor
       IN /\ result' = [result EXCEPT !.diagnostics =
                            ExtendDiagnostics(
                                ExtendDiagnostics(@, file.parse_diagnostics),
                                visitor.diagnostics)]
          /\ string_table_manager' = Extend(string_table_manager, visitor.string_table)
          /\ parsed_files' = parsed_files_push(parsed_files, parse_result)
    /\ file_idx' = file_idx + 1
    /\ processed' = [processed EXCEPT !["register_strings"] = @ + 1]
    /\ UNCHANGED <<job, step, known_variable_declarations, derived_variable_declarations,
                   tracking_nodes, tracking_acc, ignore_acc, pass_log, run, first_run>>
    /\ UNCHANGED <<lexer_vars, provider_vars>>

\* register_strings: the loop is over; the table is stored and the fold goes on.
RegisterStringsReturn ==
    /\ CurrentStep = "register_strings"
    /\ ~HasNext(file_idx, job.files)
    /\ result' = [result EXCEPT !.string_table = string_table_manager]
    /\ EnterStep(step + 1, string_table_manager)
    /\ UNCHANGED <<job, known_variable_declarations, derived_variable_declarations,
                   parsed_files, tracking_nodes, processed, run, first_run>>
    /\ UNCHANGED <<lexer_vars, provider_vars>>

\* get_declarations: one iteration of the loop over state.parsed_files.
GetDeclarationsFile ==
    /\ CurrentStep = "get_declarations"
    /\ HasNext(file_idx, parsed_files)
    /\ LET file == parsed_files[file_idx + 1]
       IN result' = [result EXCEPT
                        !.diagnostics =
                            ExtendDiagnostics(@, file.declaration_diagnostics),
                        !.declarations = @ \o file.declarations,
                        !.file_tags = Insert(@, file.file_name, file.file_tags)]
    /\ file_idx' = file_idx + 1
    /\ processed' = [processed EXCEPT !["get_declarations"] = @ + 1]
    /\ UNCHANGED <<job, step, known_variable_declarations, derived_variable_declarations,
                   parsed_files, tracking_nodes, string_table_manager, tracking_acc,
                   ignore_acc, pass_log, run, first_run>>
    /\ UNCHANGED <<lexer_vars, provider_vars>>

GetDeclarationsReturn ==
    /\ CurrentStep = "get_declarations"
    /\ ~HasNext(file_idx, parsed_files)
    /\ EnterStep(step + 1, string_table_manager)
    /\ UNCHANGED <<job, result, known_variable_declarations,
                   derived_variable_declarations, parsed_files, tracking_nodes,
                   processed, run, first_run>>
    /\ UNCHANGED <<lexer_vars, provider_vars>>

\* find_tracking_nodes: one iteration of the loop over state.parsed_files.
FindTrackingNodesFile ==
    /\ CurrentStep = "find_tracking_nodes"
    /\ HasNext(file_idx, parsed_files)
    /\ LET file == parsed_files[file_idx + 1]
       IN /\ tracking_acc' = ExtendSet(tracking_acc, file.tracking)
          /\ ignore_acc' = ExtendIgnore(ignore_acc, file.ignoring)
    /\ file_idx' = file_idx + 1
    /\ processed' = [processed EXCEPT !["find_tracking_nodes"] = @ + 1]
    /\ UNCHANGED <<job, step, result, known_variable_declarations,
                   derived_variable_declarations, parsed_files, tracking_nodes,
                   string_table_manager, pass_log, run, first_run>>
    /\ UNCHANGED <<lexer_vars, provider_vars>>

\* find_tracking_nodes: the loop is over; the difference is stored.
FindTrackingNodesReturn ==
    /\ CurrentStep = "find_tracking_nodes"
    /\ ~HasNext(file_idx, parsed_files)
    /\ tracking_nodes' = FinalTrackingNodes(tracking_acc, ignore_acc)
    /\ EnterStep(step + 1, string_table_manager)
    /\ UNCHANGED <<job, result, known_variable_declarations,
                   derived_variable_declarations, parsed_files, processed, run,
                   first_run>>
    /\ UNCHANGED <<lexer_vars, provider_vars>>

\* The fields of the intermediate add_tracking_declarations can write.
Declared ==
    [result |-> result,
     known_variable_declarations |-> known_variable_declarations,
     derived_variable_declarations |-> derived_variable_declarations]

\* add_tracking_declarations, were it to extend the result's declarations too.
add_tracking_declarations_into_result(state, tracking_declarations) ==
    [state EXCEPT !.result.declarations = @ \o tracking_declarations,
                  !.known_variable_declarations = @ \o tracking_declarations,
                  !.derived_variable_declarations = @ \o tracking_declarations]

\* add_tracking_declarations on the declarations it has built.
add_tracking_declarations(state, tracking_declarations) ==
    [state EXCEPT !.known_variable_declarations = @ \o tracking_declarations,
                  !.derived_variable_declarations = @ \o tracking_declarations]

\* add_tracking_declarations, and the fold going on.
AddTrackingDeclarations ==
    /\ CurrentStep = "add_tracking_declarations"
    /\ \E tracking_declarations \in TrackingDeclarations(tracking_nodes) :
         LET state == add_tracking_declarations(Declared, tracking_declarations)
         IN /\ result' = state.result
            /\ known_variable_declarations' = state.known_variable_declarations
            /\ derived_variable_declarations' = state.derived_variable_declarations
    /\ EnterStep(step + 1, string_table_manager)
    /\ UNCHANGED <<job, parsed_files, tracking_nodes, processed, run, first_run>>
    /\ UNCHANGED <<lexer_vars, provider_vars>>

\* The orders in which a job can list the files of `files`.
FileOrders(files) ==
    {[i \in DOMAIN files |-> files[f[i]]] :
        f \in {g \in [DOMAIN files -> DOMAIN files] : Range(g) = DOMAIN files}}

\* What one call of compile leaves behind.
Outcome ==
    [job |-> job,
     tracking_nodes |-> tracking_nodes,
     result |-> result,
     known_variable_declarations |-> known_variable_declarations,
     derived_variable_declarations |-> derived_variable_declarations]

\* compile is called a second time, on a job listing the same files in the
\* same or in another order.
CompileAgain ==
    /\ step = Returned
    /\ run = 1
    /\ first_run' = Some(Outcome)
    /\ run' = 2
    /\ step' = 0
    /\ file_idx' = 0
    /\ pass_log' = <<>>
    /\ processed' = NoneProcessed
    /\ \E files \in FileOrders(job.files) : job' = [job EXCEPT !.files = files]
    /\ UNCHANGED <<result, known_variable_declarations,
                   derived_variable_declarations, parsed_files, tracking_nodes,
                   string_table_manager, tracking_acc, ignore_acc>>
    /\ UNCHANGED <<lexer_vars, provider_vars>>

\* compile has not been called on `j` yet.
CompileIdle(j) ==
    /\ job = j
    /\ step = 0
    /\ file_idx = 0
    /\ result = DefaultResult
    /\ known_variable_declarations = <<>>
    /\ derived_variable_declarations = <<>>
    /\ parsed_files = <<>>
    /\ tracking_nodes = {}
    /\ string_table_manager = EmptyMap
    /\ tracking_acc = {}
    /\ ignore_acc = {}
    /\ pass_log = <<>>
    /\ processed = NoneProcessed
    /\ run = 1
    /\ first_run = None

\* ======================================================== text provider
\* The threads that call the providers.
Threads == {"t1", "t2"}

ProvidedLineIds == {"line:1", "line:2"}

\* The HashMap<LineId, String> values handed to the providers.
StringTables ==
    {[id \in {"line:1"} |-> "hello"],
     [id \in ProvidedLineIds |-> IF id = "line:1" THEN "bonjour" ELSE "monde"]}

\* Arc::new(RwLock::new(value)): an allocation nobody has locked.
NewArc(value) == [value |-> value, readers |-> 0, writer |-> FALSE]

Idle == [pc |-> "idle", provider |-> 0, id |-> "", table |-> EmptyMap]

\* Clone, were it to copy the table into an allocation of its own.
clone_deep(p) ==
    [provider |-> [string_table |-> Len(arcs) + 1],
     arcs |-> Append(arcs, NewArc(arcs[providers[p].string_table].value))]

\* #[derive(Clone)] on StringTableTextProvider: Arc::clone of its field, the
\* same allocation.
clone(p) ==
    [provider |-> [string_table |-> providers[p].string_table], arcs |-> arcs]

\* clone_shallow: Box::new(self.clone())
clone_shallow(p) == clone(p)

\* HashMap::get(id).cloned()
get(table, id) == IF id \in DOMAIN table THEN Some(table[id]) ELSE None

\* The provider `p` is borrowed by a call in progress: mutably by
\* set_string_table, or at all.
BorrowedMut(p) ==
    \E t \in Threads : threads[t].provider = p /\ threads[t].pc = "set_string_table"

Borrowed(p) == \E t \in Threads : threads[t].provider = p /\ threads[t].pc # "idle"

\* StringTableTextProvider::with_string_table
WithStringTable ==
    /\ Len(providers) < MaxProviders
    /\ \E string_table \in StringTables :
         /\ arcs' = Append(arcs, NewArc(string_table))
         /\ last_set' = Append(last_set, string_table)
    /\ providers' = Append(providers, [string_table |-> Len(arcs) + 1])
    /\ cloned_from' = Append(cloned_from, Len(providers) + 1)
    /\ UNCHANGED <<threads, got_text>>
    /\ UNCHANGED <<lexer_vars, compile_vars>>

\* A provider takes its place among the providers alive.
AddClone(p, cloned) ==
    /\ providers' = Append(providers, cloned.provider)
    /\ arcs' = cloned.arcs
    /\ cloned_from' = Append(cloned_from, cloned_from[p])
    /\ last_set' = Append(last_set, last_set[cloned_from[p]])
    /\ UNCHANGED <<threads, got_text>>
    /\ UNCHANGED <<lexer_vars, compile_vars>>

\* StringTableTextProvider::clone
CloneProvider ==
    /\ Len(providers) < MaxProviders
    /\ \E p \in DOMAIN providers : ~BorrowedMut(p) /\ AddClone(p, clone(p))

\* clone_shallow, also what cloning a Box<dyn TextProvider> calls.
CloneShallow ==
    /\ Len(providers) < MaxProviders
    /\ \E p \in DOMAIN providers : ~BorrowedMut(p) /\ AddClone(p, clone_shallow(p))

\* get_text: the read lock is taken (read() waits while a writer holds it).
GetTextLock ==
    \E t \in Threads, p \in DOMAIN providers, id \in ProvidedLineIds :
       LET a == providers[p].string_table
       IN /\ threads[t].pc = "idle"
          /\ ~BorrowedMut(p)
          /\ ~arcs[a].writer
          /\ arcs' = [arcs EXCEPT ![a].readers = @ + 1]
          /\ threads' = [threads EXCEPT ![t] =
                            [pc |-> "get_text", provider |-> p, id |-> id,
                             table |-> EmptyMap]]
          /\ UNCHANGED <<providers, got_text, cloned_from, last_set>>
          /\ UNCHANGED <<lexer_vars, compile_vars>>

\* get_text: the entry is read and cloned, the guard dropped.
GetTextReturn ==
    \E t \in Threads :
       /\ threads[t].pc = "get_text"
       /\ LET a == providers[threads[t].provider].string_table
          IN /\ got_text' = Some(get(arcs[a].value, threads[t].id))
             /\ arcs' = [arcs EXCEPT ![a].readers = @ - 1]
       /\ threads' = [threads EXCEPT ![t] = Idle]
       /\ UNCHANGED <<providers, cloned_from, last_set>>
       /\ UNCHANGED <<lexer_vars, compile_vars>>

\* set_string_table: the write lock is taken (write() waits for the readers
\* and the writer to be gone); the provider is borrowed mutably.
SetStringTableLock ==
    \E t \in Threads, p \in DOMAIN providers, string_table \in StringTables :
       LET a == providers[p].string_table
       IN /\ threads[t].pc = "idle"
          /\ ~Borrowed(p)
          /\ ~arcs[a].writer /\ arcs[a].readers = 0
          /\ arcs' = [arcs EXCEPT ![a].writer = TRUE]
          /\ threads' = [threads EXCEPT ![t] =
                            [pc |-> "set_string_table", provider |-> p, id |-> "",
                             table |-> string_table]]
          /\ UNCHANGED <<providers, got_text, cloned_from, last_set>>
          /\ UNCHANGED <<lexer_vars, compile_vars>>

\* set_string_table: the table is replaced, the guard dropped.
SetStringTableReturn ==
    \E t \in Threads :
       /\ threads[t].pc = "set_string_table"
       /\ LET p == threads[t].provider
              a == providers[p].string_table
          IN /\ arcs' = [arcs EXCEPT ![a] = NewArc(threads[t].table)]
             /\ last_set' = [h \in DOMAIN last_set |->
                                IF cloned_from[h] = cloned_from[p]
                                THEN threads[t].table ELSE last_set[h]]
       /\ threads' = [threads EXCEPT ![t] = Idle]
       /\ UNCHANGED <<providers, got_text, cloned_from>>
       /\ UNCHANGED <<lexer_vars, compile_vars>>

\* StringTableTextProvider::new(): one provider on an empty table.
ProviderInit ==
    /\ providers = <<[string_table |-> 1]>>
    /\ arcs = <<NewArc(EmptyMap)>>
    /\ threads = [t \in Threads |-> Idle]
    /\ got_text = None
    /\ cloned_from = <<1>>
    /\ last_set = <<EmptyMap>>

\* ======================================================== specifications
\* The lexer wrapper over every input of the primitive lexer.
Init ==
    /\ LexerInit
    /\ ProviderInit
    /\ input_size_zero \in BOOLEAN
    /\ CompileIdle([files |-> <<>>, variable_declarations |-> <<>>])

Next ==
    \/ NextTokenNoPull
    \/ NextTokenNewline
    \/ NextTokenEof
    \/ NextTokenShortcutArrow
    \/ NextTokenBodyEnd
    \/ NextTokenOther

Spec == Init /\ [][Next]_vars

\* The wrapper measuring NEWLINE tokens of every text the grammar allows.
NewlineInit ==
    /\ LexerInit
    /\ ProviderInit
    /\ input_size_zero = FALSE
    /\ CompileIdle([files |-> <<>>, variable_declarations |-> <<>>])

\* next_token on a NEWLINE token of one of the measured texts.
MeasureNewline ==
    /\ Len(pulled) < 2
    /\ \E text \in MeasuredTexts : NextTokenPull(Tok(NEWLINE, text, base_line))

\* next_token on a shortcut marker, ahead of a measured NEWLINE.
MeasureAfterShortcut ==
    /\ Len(pulled) < 2
    /\ NextTokenShortcutArrow

NewlineNext ==
    \/ MeasureNewline
    \/ MeasureAfterShortcut

NewlineSpec == NewlineInit /\ [][NewlineNext]_vars

\* compile, called on every job and then once more on a job of the same files.
CompileInit ==
    /\ LexerInit
    /\ ProviderInit
    /\ input_size_zero = FALSE
    /\ \E j \in Jobs : CompileIdle(j)

CompileNext ==
    \/ Compile
    \/ RegisterStringsFile
    \/ RegisterStringsReturn
    \/ GetDeclarationsFile
    \/ GetDeclarationsReturn
    \/ FindTrackingNodesFile
    \/ FindTrackingNodesReturn
    \/ AddTrackingDeclarations
    \/ CompileAgain

CompileSpec == CompileInit /\ [][CompileNext]_vars

\* Threads calling providers and their clones.
ProviderNext ==
    \/ WithStringTable
    \/ CloneProvider
    \/ CloneShallow
    \/ GetTextLock
    \/ GetTextReturn
    \/ SetStringTableLock
    \/ SetStringTableReturn

ProviderSpecInit ==
    /\ LexerInit
    /\ ProviderInit
    /\ input_size_zero = FALSE
    /\ CompileIdle([files |-> <<>>, variable_declarations |-> <<>>])

ProviderSpec == ProviderSpecInit /\ [][ProviderNext]_vars

\* compile is sequential code without a blocking call: a step that can be
\* taken is taken.
CompileFairSpec == CompileSpec /\ WF_vars(CompileNext)


\* ================================================= claims on the pipeline
\* The node titles for which some file of `files` requests tracking.
Requested(files) == UNION {Range(f.tracking) : f \in Range(files)}
\* The node titles some file of `files` opts out of tracking.
OptedOut(files) == UNION {Range(f.ignoring) : f \in Range(files)}

\* The declarations of `decls` that are a tracking variable for `node`.
TrackingVariablesFor(decls, node) ==
    {i \in DOMAIN decls :
        decls[i].name = generate_unique_visited_variable_for_node(node)}

\* The step named `name` has returned in the running compile.
StepDone(name) ==
    \E k \in DOMAIN pass_log : pass_log[k] = name /\ (k < Len(pass_log) \/ step = Returned)

\* C4: compile on one file holding the node "Start", whose body calls the
\* visit-tracking built-in, returns exactly one tracking declaration, which
\* has numeric type, default value 0 and a name derived from "Start".
C4_ReturnsTrackingDeclaration ==
    (step = Returned /\ job.files = <<FileStart>>)
        => \E i \in DOMAIN result.declarations :
              /\ TrackingVariablesFor(result.declarations, "Start") = {i}
              /\ result.declarations[i].type = "Number"
              /\ result.declarations[i].default_value = 0

\* C5: after find_tracking_nodes the tracked set is the titles requested in
\* some file minus the titles opted out in some file, and a job listing the
\* same files in another order ends with the same set.
C5_TrackedSet ==
    StepDone("find_tracking_nodes") =>
        /\ tracking_nodes = Requested(job.files) \ OptedOut(job.files)
        /\ run = 2 => tracking_nodes = first_run[1].tracking_nodes

\* The second compile, on another order of files that request and opt out
\* the same title, has scanned its files.
C5_Witness ==
    /\ run = 2
    /\ job.files # first_run[1].job.files
    /\ StepDone("find_tracking_nodes")
    /\ "X" \in Requested(job.files) \cap OptedOut(job.files)
    /\ "Start" \in tracking_nodes

\* C6: once compile is over, no declaration list holds a tracking variable
\* for a node some file opts out, and a job listing the same files in
\* another order ends with the same tracking variables in each list.
C6_OptOutWins ==
    step = Returned =>
        /\ \A n \in OptedOut(job.files) :
              /\ TrackingVariablesFor(known_variable_declarations, n) = {}
              /\ TrackingVariablesFor(derived_variable_declarations, n) = {}
              /\ TrackingVariablesFor(result.declarations, n) = {}
        /\ run = 2 =>
              /\ Range(known_variable_declarations)
                    = Range(first_run[1].known_variable_declarations)
              /\ Range(derived_variable_declarations)
                    = Range(first_run[1].derived_variable_declarations)
              /\ Range(result.declarations) = Range(first_run[1].result.declarations)

\* Both orders of a file requesting "X" and a file opting "X" out are done.
C6_Witness ==
    /\ step = Returned
    /\ run = 2
    /\ job.files = <<FileB, FileA>>
    /\ first_run[1].job.files = <<FileA, FileB>>

\* C7: add_tracking_declarations leaves in the known and in the derived list
\* the same declarations, exactly one for every title of the tracked set and
\* no other, however often the title was requested.
C7_OneDeclarationPerNode ==
    StepDone("add_tracking_declarations") =>
        /\ known_variable_declarations = derived_variable_declarations
        /\ Len(known_variable_declarations) = Cardinality(tracking_nodes)
        /\ \A n \in tracking_nodes :
              \E i \in DOMAIN known_variable_declarations :
                 /\ TrackingVariablesFor(known_variable_declarations, n) = {i}
                 /\ known_variable_declarations[i] = TrackingDeclaration(n)

\* "X" is requested twice in one file and once more in another.
C7_Witness ==
    /\ StepDone("add_tracking_declarations")
    /\ job.files = <<FileA, FileC>>
    /\ tracking_nodes = {"Start", "X"}

\* C8: compile on a job without files returns a result whose diagnostics,
\* declarations, string table and file tags are empty.
C8_EmptyJob ==
    (step = Returned /\ job.files = <<>>)
        => /\ result.diagnostics = <<>>
           /\ result.declarations = <<>>
           /\ DOMAIN result.string_table = {}
           /\ DOMAIN result.file_tags = {}

\* compile has returned for a job without files that hands in a declaration.
C8_Witness ==
    /\ step = Returned
    /\ job.files = <<>>
    /\ job.variable_declarations # <<>>
    /\ pass_log = <<"register_strings", "get_declarations", "find_tracking_nodes",
                    "add_tracking_declarations">>

\* C9: two compiles of the same job end with the same diagnostics, the same
\* declarations (the explicit ones and the synthesized tracking
\* declarations, in the same order) and the same string table.
C9_Deterministic ==
    (step = Returned /\ run = 2 /\ job = first_run[1].job)
        => /\ result.diagnostics = first_run[1].result.diagnostics
           /\ result.declarations = first_run[1].result.declarations
           /\ result.string_table = first_run[1].result.string_table
           /\ known_variable_declarations = first_run[1].known_variable_declarations
           /\ derived_variable_declarations
                 = first_run[1].derived_variable_declarations

\* C10: the passes start in the order register_strings, get_declarations,
\* find_tracking_nodes, add_tracking_declarations, each at most once and,
\* when compile returns, exactly once; a pass has started only if the pass
\* before it has processed every file of the job.
C10_PassOrder ==
    /\ IsPrefix(pass_log, <<"register_strings", "get_declarations",
                            "find_tracking_nodes", "add_tracking_declarations">>)
    /\ step = Returned => Len(pass_log) = 4
    /\ \A k \in 2..Len(pass_log) : processed[pass_log[k - 1]] = Len(job.files)
    /\ \A p \in PerFilePasses : processed[p] <= Len(job.files)

\* The last pass has started on a job of several files.
C10_Witness ==
    /\ Len(pass_log) = 4
    /\ step = 4
    /\ Len(job.files) = MaxFiles
    /\ processed["find_tracking_nodes"] = MaxFiles


\* C11: every call of compile returns, after its four passes, and each of
\* register_strings, get_declarations and find_tracking_nodes has then
\* processed every file of the job, whatever diagnostics were produced.
C11_TerminatesProcessingEveryFile ==
    (step = 0) ~> (/\ step = Returned
                   /\ Len(pass_log) = 4
                   /\ \A p \in PerFilePasses : processed[p] = Len(job.files))

\* compile has returned for a job whose first file has a syntax error and
\* whose second file has a bad declaration; every file went through each pass.
C11_Witness ==
    /\ step = Returned
    /\ job.files = <<FileB, FileC, FileA>>
    /\ \E i \in DOMAIN result.diagnostics : result.diagnostics[i].severity = "Error"
    /\ \A p \in PerFilePasses : processed[p] = 3

\* The diagnostics of the first and of the second pass, in file order.
RECURSIVE RegisterStringsDiagnostics(_, _)
RegisterStringsDiagnostics(files, table) ==
    IF files = <<>> THEN <<>>
    ELSE LET visitor == RegisterLines(table, Head(files).lines, Head(files).file_name)
         IN Head(files).parse_diagnostics \o visitor.diagnostics
            \o RegisterStringsDiagnostics(Tail(files), visitor.string_table)

RECURSIVE GetDeclarationsDiagnostics(_)
GetDeclarationsDiagnostics(files) ==
    IF files = <<>> THEN <<>>
    ELSE Head(files).declaration_diagnostics \o GetDeclarationsDiagnostics(Tail(files))

\* C14: within one compile every step leaves the result's diagnostics an
\* extension of what they were, and the list compile returns holds the
\* diagnostics of pass 1 in file order, then those of pass 2 in file order.
C14_DiagnosticsAppendOnly ==
    [][/\ step # 0 => IsPrefix(result.diagnostics, result.diagnostics')
       /\ step' = Returned =>
             result.diagnostics' =
                 RegisterStringsDiagnostics(job.files, EmptyMap)
                 \o GetDeclarationsDiagnostics(job.files)]_vars

\* Both passes have added diagnostics: a syntax error and a duplicate line id
\* in pass 1, a bad declaration in pass 2.
C14_Witness ==
    /\ step = Returned
    /\ job.files = <<FileA, FileB, FileC>>
    /\ Len(result.diagnostics) = 3
    /\ result.diagnostics[3].message = "bad declaration"

\* The step is one iteration of the loop of register_strings.
RegisterStringsStep ==
    processed'["register_strings"] = processed["register_strings"] + 1

\* C27: in register_strings the tree the string-table generator visits is
\* the tree of this file's parse after the tagger has run over it: the tree
\* retained is that of the file, its lines before options tagged, and every
\* entry the generator registers carries the tags of its line.
C27_ParseTagGenerate ==
    [][RegisterStringsStep =>
          LET file == job.files[file_idx + 1]
              tree == parsed_files'[Len(parsed_files')]
          IN /\ [tree EXCEPT !.lines = file.lines] = file
             /\ Len(tree.lines) = Len(file.lines)
             /\ \A i \in DOMAIN file.lines :
                   tree.lines[i].tags =
                       (IF file.lines[i].before_options THEN <<"lastline">> ELSE <<>>)
             /\ \A id \in DOMAIN string_table_manager' \ DOMAIN string_table_manager :
                   \E i \in DOMAIN tree.lines :
                      /\ tree.lines[i].id = id
                      /\ string_table_manager'[id] =
                            [text |-> tree.lines[i].text, file |-> file.file_name,
                             tags |-> tree.lines[i].tags]]_vars

\* The table holds an entry with the tag of the tagger and one without.
C27_Witness ==
    /\ CurrentStep = "register_strings"
    /\ \E a, b \in DOMAIN string_table_manager :
          /\ string_table_manager[a].tags = <<"lastline">>
          /\ string_table_manager[b].tags = <<>>
    /\ \E i \in DOMAIN parsed_files :
          \E k \in DOMAIN parsed_files[i].lines :
             parsed_files[i].lines[k].tags = <<"lastline">>

\* The declaration statements of `files`, in order.
RECURSIVE DeclaredIn(_)
DeclaredIn(files) ==
    IF files = <<>> THEN <<>>
    ELSE Head(files).declarations \o DeclaredIn(Tail(files))

\* A tree without the tags the tagger has put on its lines.
Untagged(tree) ==
    [tree EXCEPT !.lines = [i \in DOMAIN @ |-> [@[i] EXCEPT !.tags = <<>>]]]

\* C28: the retained parsed files are the parses of the files register_strings
\* has gone through, one each, in job order, diagnosed or not; once
\* register_strings has returned there is one per file of the job, the later
\* passes go through exactly these, and what get_declarations extracts is
\* what they hold.
C28_RetainedParsedFiles ==
    /\ step \in 1..Returned =>
          /\ Len(parsed_files) = processed["register_strings"]
          /\ Len(parsed_files) <= Len(job.files)
          /\ \A i \in DOMAIN parsed_files : Untagged(parsed_files[i]) = job.files[i]
    /\ step \in 2..Returned => Len(parsed_files) = Len(job.files)
    /\ step = Returned =>
          /\ processed["get_declarations"] = Len(parsed_files)
          /\ processed["find_tracking_nodes"] = Len(parsed_files)
          /\ result.declarations = DeclaredIn(parsed_files)

\* Three files were retained, one of them with a syntax error, and the later
\* passes have read them.
C28_Witness ==
    /\ step = Returned
    /\ Len(parsed_files) = 3
    /\ parsed_files[2].parse_diagnostics # <<>>
    /\ result.declarations # <<>>

\* The line ids of the lines of `files`.
LineIds(files) ==
    UNION {{files[i].lines[k].id : k \in DOMAIN files[i].lines} : i \in DOMAIN files}

\* The number of lines of `lines` whose id is in `taken` or is the id of an
\* earlier line of `lines`.
Collisions(lines, taken) ==
    Cardinality({k \in DOMAIN lines :
                    \/ lines[k].id \in taken
                    \/ \E j \in 1..(k - 1) : lines[j].id = lines[k].id})

\* C29: the generator of a file starts from the entries of the files before
\* it (a line id one of them registered is diagnosed as taken); merging
\* leaves every earlier entry as it was and adds the line ids of the file;
\* the table register_strings stores holds the line ids of all files.
C29_RunningStringTable ==
    [][/\ RegisterStringsStep =>
             LET file == job.files[file_idx + 1]
             IN /\ DOMAIN string_table_manager'
                      = DOMAIN string_table_manager \cup LineIds(<<file>>)
                /\ \A id \in DOMAIN string_table_manager :
                      string_table_manager'[id] = string_table_manager[id]
                /\ Len(result'.diagnostics) = Len(result.diagnostics)
                      + Len(file.parse_diagnostics)
                      + Collisions(file.lines, DOMAIN string_table_manager)
                /\ DOMAIN string_table_manager'
                      = LineIds(SubSeq(job.files, 1, file_idx + 1))
       /\ (step = 1 /\ step' = 2) =>
             /\ result'.string_table = string_table_manager
             /\ DOMAIN result'.string_table = LineIds(job.files)]_vars

\* The second file reused a line id of the first: the entry of the first is
\* kept, the new id added, the collision diagnosed.
C29_Witness ==
    /\ CurrentStep = "register_strings"
    /\ file_idx = 2
    /\ job.files[1] = FileA
    /\ job.files[2] = FileB
    /\ DOMAIN string_table_manager = {"line:a1", "line:b1"}
    /\ string_table_manager["line:a1"].file = "a.yarn"
    /\ \E i \in DOMAIN result.diagnostics :
          result.diagnostics[i].message = "Duplicate line ID"

LastNamed(files, name) ==
    CHOOSE i \in DOMAIN files :
        /\ files[i].file_name = name
        /\ \A k \in DOMAIN files : files[k].file_name = name => k <= i

\* C35: after get_declarations the file_tags of the result have one entry
\* per distinct file name of the job and no other; for a name two files
\* share, the entry holds the tags of the one processed last.
C35_FileTagsPerName ==
    step \in 3..Returned =>
        /\ DOMAIN result.file_tags = {job.files[i].file_name : i \in DOMAIN job.files}
        /\ \A name \in DOMAIN result.file_tags :
              result.file_tags[name] = job.files[LastNamed(job.files, name)].file_tags

\* Two files named "a.yarn" with other tags, a third file between them: two
\* entries, the one of "a.yarn" holding the tags of the later file.
C35_Witness ==
    /\ step = Returned
    /\ job.files = <<FileC, FileB, FileA>>
    /\ DOMAIN result.file_tags = {"a.yarn", "b.yarn"}
    /\ result.file_tags["a.yarn"] = <<"tagA">>

\* ============================================ claims on the text provider
\* The text a table holds for a line id, if any.
TextOf(table, id) == IF id \in DOMAIN table THEN <<table[id]>> ELSE <<>>

\* The step is the return of a get_text call of thread `t`.
GetTextReturns(t) == threads[t].pc = "get_text" /\ threads'[t].pc = "idle"

\* C36: a provider and the providers cloned from it, by clone or by
\* clone_shallow, share one table: whatever the interleaving of the calls,
\* get_text on any of them returns the text the table last set on any of
\* them holds for the id, and None for an id it does not hold.
C36_ClonesShareTable ==
    [][/\ \A t \in Threads :
             GetTextReturns(t) =>
                got_text' = <<TextOf(last_set[threads[t].provider], threads[t].id)>>
       /\ \A p, q \in DOMAIN providers' :
             cloned_from'[p] = cloned_from'[q]
                => providers'[p].string_table = providers'[q].string_table]_vars

\* Three providers share a table that was set through one of them: the last
\* get_text returned None for an id that table does not hold, and a thread
\* is reading through a clone.
C36_Witness ==
    /\ Len(providers) = 3
    /\ \A p \in DOMAIN providers : cloned_from[p] = 1
    /\ DOMAIN last_set[1] = {"line:1"}
    /\ got_text = <<<<>>>>
    /\ threads["t1"].pc = "get_text" /\ threads["t1"].provider = 2
    /\ threads["t2"].pc = "idle"

====
